---- MODULE Spec2Model ----
(***************************************************************************)
(* Arduino Wind Turbine firmware (project-windfarm-practicum): the SysTick *)
(* timestamp service, the serial-command DAQ state machine and the         *)
(* per-pass sampling of the INA228 channels, as one state machine.         *)
(*                                                                         *)
(* 32-bit unsigned values (millis) are kept as pairs <<hi, lo>> of 16-bit  *)
(* halves, so that their arithmetic wraps at exactly 2^32.                 *)
(***************************************************************************)
EXTENDS Integers, Sequences, FiniteSets, TLC

\* ------------------------------------------------------------------ constants

\* Main clock of the SAMD51 boards the firmware targets [Hz]
VARIANT_MCK == 120000000
\* [ms] Period to listen for serial commands
PERIOD_SC == 20
\* Number of elements of ina228_sensors[]
NumSensors == 3
\* 2^16: 32-bit words are pairs of 16-bit halves
W16 == 65536
\* Size of the general string buffer buf
BUFLEN == 1024
\* Decimal digits of the integer part of the largest float (3.4028235e38)
FLT_DIGITS == 39

\* ------------------------------------------------------------------ bounds

\* Down-counter values at which the program can observe SysTick->VAL
Phases == 2
\* Single millisecond boundaries (timer reloads) of one run
MaxWraps == 2
\* Long stretches (PERIOD_SC ms each) between two passes of one run
MaxDelays == 2
\* Command lines waiting in the serial command listener
MaxPending == 1
\* Command lines the host sends in one burst, faster than they are polled
MaxBurst == 2
\* Long stretches (PERIOD_SC ms each) of a run in which only these are counted
MaxLongDelays == 4

\* ------------------------------------------------------------------ 32-bit words

U32Zero == <<0, 0>>

U32Add(x, k) ==
  LET lo == x[2] + k
  IN  <<(x[1] + (lo \div W16)) % W16, lo % W16>>

U32Sub(a, b) ==
  LET lo == a[2] - b[2]
      borrow == IF lo < 0 THEN 1 ELSE 0
  IN  <<(a[1] - b[1] - borrow) % W16, lo % W16>>

\* x > k for a word x and a small number k (k < 2^16)
U32Gt(x, k) == x[1] > 0 \/ x[2] > k

\* ------------------------------------------------------------------ state

VARIABLES
  \* SysTick timer and the core's millisecond counter
  SysTick_VAL,      \* down-counter, SysTick_LOAD .. 0
  pendst,           \* SCB->ICSR PENDSTSET: SysTick exception pending
  millis_count,     \* the counter millis() returns, incremented by the handler
  wraps, delays,    \* how much time of the run has been used
  \* get_systick_timestamp
  ulTickCount, ticks, ticks2, pend, pend2, count, count2,
  at_ticks, at_ticks2, \* millisecond boundaries passed when ticks / ticks2 was read
  retried,          \* this call has repeated an iteration of its do-while loop
  in_call,          \* steps the down-counter has made during this call
  \* loop
  pc, DAQ_running, prev_DAQ_running, tick_sc, tick_sc_set, millis_copy,
  micros_part, strCmd,
  \* peripherals
  rx,               \* complete command lines received, oldest first
  Ser_out,          \* the lines written to Ser in the current pass of loop()
  led, ina228, inited,
  \* history
  entry_DAQ,        \* DAQ_running at the entry of this pass
  emitted,          \* this pass has written a data line
  dispatched,       \* this pass has dispatched a command (strCmd)
  last_toggle,      \* the DAQ state the command dispatched last, in an earlier pass,
                    \* found, if that command was none of the four named ones
                    \* ("none" otherwise)
  stamp, prev_stamp, \* the last two timestamps get_systick_timestamp returned
                    \* (kept in the specification of the timestamp service only)
  since_poll,       \* milliseconds counted since the command listener was polled
                    \* last (before the first poll: since the first pass)
  \* buf, the general string buffer
  buf,              \* its contents, in cells: the room of one printed field each,
                    \* or of the terminating NUL
  buf_len,          \* strlen(buf), in characters
  buf_want,         \* the characters the snprintf calls of this line had to store
  chan              \* the channel the loop over ina228_sensors appends next

hwVars == <<SysTick_VAL, pendst, millis_count, wraps, delays>>
tsLocals == <<ulTickCount, ticks, ticks2, pend, pend2, count, count2, at_ticks, at_ticks2,
             retried>>
tsVars == <<tsLocals, in_call>>
loopVars == <<DAQ_running, prev_DAQ_running, tick_sc, tick_sc_set, millis_copy,
              micros_part, strCmd>>
ioVars == <<rx, Ser_out, led, ina228, inited>>
passVars == <<entry_DAQ, emitted, dispatched, last_toggle, stamp, prev_stamp>>
histVars == <<passVars, since_poll>>
bufVars == <<buf, buf_len, buf_want, chan>>
vars == <<hwVars, tsVars, pc, loopVars, ioVars, histVars, bufVars>>

Sensors == 1..NumSensors

\* Command lines the host sends
Tokens == {"id?", "r", "on", "off", "ON", ""}
NoCmd == "<none>"
Recognised == {"id?", "r", "on", "off"}

LED_COLOR_SETUP == "blue"
LED_COLOR_IDLE == "green"
LED_COLOR_DAQ_RUNNING == "orange"

\* ------------------------------------------------------------------ SysTick

SysTick_LOAD == (VARIANT_MCK \div 1000) - 1

\* The values of the down-counter the model lets the program observe
ValSamples == {((Phases - 1 - p) * SysTick_LOAD) \div (Phases - 1) : p \in 0..(Phases - 1)}

NextSample(v) == CHOOSE w \in ValSamples : w < v /\ \A u \in ValSamples : u < v => u <= w

\* millis()
millis == millis_count

\* Millisecond boundaries passed so far: those the handler has counted plus
\* the one still pending
BoundariesPassed == U32Add(millis_count, IF pendst THEN 1 ELSE 0)

\* Where the clock advances. The program reads it at the entry of loop() and
\* inside get_systick_timestamp only, so time that passes anywhere else in a
\* pass is accounted for at the next of these places
BetweenPasses == pc = "loop"
InCall == pc \in {"ts_millis", "ts_val", "ts_pend", "ts_loop_val", "ts_loop_pend"}

\* The counter counts down between two reloads
TickBody ==
  /\ SysTick_VAL > 0
  /\ SysTick_VAL' = NextSample(SysTick_VAL)
  /\ UNCHANGED <<pendst, millis_count, wraps, delays>>
  /\ UNCHANGED <<tsLocals, pc, loopVars, ioVars, histVars>>
  /\ UNCHANGED bufVars

\* The counter reaches zero: it reloads and the SysTick exception is pended
ReloadBody ==
  /\ SysTick_VAL = 0
  /\ ~pendst
  /\ wraps < MaxWraps
  /\ SysTick_VAL' = SysTick_LOAD
  /\ pendst' = TRUE
  /\ wraps' = wraps + 1
  /\ UNCHANGED <<millis_count, delays>>
  /\ UNCHANGED <<tsLocals, pc, loopVars, ioVars, histVars>>
  /\ UNCHANGED bufVars

\* SysTick_Handler: the pending exception is taken, the counter of millis() advances
HandlerBody ==
  /\ pendst
  /\ pendst' = FALSE
  /\ millis_count' = U32Add(millis_count, 1)
  /\ since_poll' = since_poll + 1
  /\ UNCHANGED <<SysTick_VAL, wraps, delays>>
  /\ UNCHANGED <<tsVars, pc, loopVars, ioVars, passVars>>
  /\ UNCHANGED bufVars

\* The clock between two passes of loop()
Tick == BetweenPasses /\ TickBody /\ UNCHANGED in_call
Reload == BetweenPasses /\ ReloadBody /\ UNCHANGED in_call
SysTick_Handler == BetweenPasses /\ HandlerBody

\* A call of get_systick_timestamp takes less than a millisecond: during one
\* call the down-counter makes fewer steps than a whole period has
CallSteps == Phases - 1

\* The clock during a call of get_systick_timestamp, between any two of its reads
TickInCall == InCall /\ in_call < CallSteps /\ TickBody /\ in_call' = in_call + 1
ReloadInCall == InCall /\ in_call < CallSteps /\ ReloadBody /\ in_call' = in_call + 1
SysTick_HandlerInCall == InCall /\ HandlerBody

\* PERIOD_SC milliseconds pass between two passes of loop(), in a run that
\* has n such stretches
ElapseUpTo(n) ==
  /\ pc = "loop"
  /\ ~pendst
  /\ delays < n
  /\ delays' = delays + 1
  /\ millis_count' = U32Add(millis_count, PERIOD_SC)
  /\ since_poll' = since_poll + PERIOD_SC
  /\ UNCHANGED <<SysTick_VAL, pendst, wraps>>
  /\ UNCHANGED <<tsVars, pc, loopVars, ioVars, passVars>>
  /\ UNCHANGED bufVars

Elapse == ElapseUpTo(MaxDelays)

\* The same, of a longer run
ElapseLong == ElapseUpTo(MaxLongDelays)

\* ------------------------------------------------------------------ peripherals

\* Ser.println(line): the line and the line terminator
Push(out, line) == Append(out, [eol |-> "\r\n"] @@ line)

\* The host sends one complete command line (the listener is polled in the
\* command section only, so the line is taken to arrive between two passes,
\* or while the firmware stands in the endless loop of a failed setup)
ReceiveUpTo(n) ==
  /\ pc \in {"loop", "halt"}
  /\ Len(rx) < n
  /\ \E tok \in Tokens : rx' = Append(rx, tok)
  /\ UNCHANGED <<Ser_out, led, ina228, inited>>
  /\ UNCHANGED <<hwVars, tsVars, pc, loopVars, histVars>>
  /\ UNCHANGED bufVars

Receive == ReceiveUpTo(MaxPending)

\* The same, of a host that sends several lines between two polls
ReceiveBurst == ReceiveUpTo(MaxBurst)

\* sc.available(): a complete command line is waiting
sc_available == Len(rx) > 0

\* (a listener that hands out the line received last)
sc_getCmdNewest(q) == q[Len(q)]
\* sc.getCmd(): the line that has waited longest
sc_getCmd(q) == Head(q)

\* The chips that finish a conversion at one moment: the first channel alone,
\* the other channels, or all of them
Completions == {{1}, Sensors \ {1}, Sensors}

\* Some of the INA228s, each converting on its own clock, finish a conversion:
\* each of them raises its conversion-ready flag and adds to its energy
\* accumulator (of which the model keeps whether it is zero: "reset", or not:
\* "some")
ConversionDone ==
  /\ pc = "loop"
  /\ \E done \in Completions :
       ina228' = [i \in Sensors |-> IF i \in done
                                    THEN [cnvrf |-> TRUE, energy |-> "some"]
                                    ELSE ina228[i]]
  /\ ina228' # ina228
  /\ UNCHANGED <<rx, Ser_out, led, inited>>
  /\ UNCHANGED <<hwVars, tsVars, pc, loopVars, histVars>>
  /\ UNCHANGED bufVars

\* ina228.resetAccumulators()
resetAccumulators(s) == [s EXCEPT !.energy = "reset"]

\* for (auto &ina228 : ina228_sensors) ina228.resetAccumulators();
ResetAll(all) == [i \in Sensors |-> resetAccumulators(all[i])]

\* readCurrent / readBusVoltage / readEnergy of channel i: a value is known by
\* the channel and the quantity it was read from, the energy also by what the
\* accumulator holds
readCurrent(all, i) == <<i, "I">>
readBusVoltage(all, i) == <<i, "V">>
readEnergy(all, i) == <<i, "E", all[i].energy>>

\* ------------------------------------------------------------------ get_systick_timestamp

\* (a loop that also repeats when the down-counter has not moved)
RetryNonStrict(p, p2, c, c2, t, t2) == (p # p2) \/ (c # c2) \/ (t <= t2)
\* while ((pend != pend2) || (count != count2) || (ticks < ticks2))
Retry(p, p2, c, c2, t, t2) == (p # p2) \/ (c # c2) \/ (t < t2)

\* (an increment that stops at the largest count instead of wrapping)
StampMillisSaturating(c2, p) ==
  IF p /\ c2 # <<W16 - 1, W16 - 1>> THEN U32Add(c2, 1) ELSE c2
\* (*stamp_millis) = count2; if (pend) {(*stamp_millis)++;}
StampMillis(c2, p) == IF p THEN U32Add(c2, 1) ELSE c2

\* 1048576 / (VARIANT_MCK / 1000000)
FracScale == 1048576 \div (VARIANT_MCK \div 1000000)

\* (SysTick->LOAD - ticks) * FracScale, before it is cut to 32 bits
FracProduct(t) == (SysTick_LOAD - t) * FracScale

\* (a fraction shifted by 19 bits instead of 20)
MicrosPartShift19(t) == ((((FracProduct(t) \div W16) % W16) \div 8)) % W16
\* (uint16_t)((product mod 2^32) >> 20)
MicrosPart(t) == ((((FracProduct(t) \div W16) % W16) \div 16)) % W16

\* uint32_t _ulTickCount = millis();
TsReadMillis ==
  /\ pc = "ts_millis"
  /\ ulTickCount' = millis
  /\ pc' = "ts_val"
  /\ UNCHANGED <<in_call, ticks, ticks2, pend, pend2, count, count2, at_ticks, at_ticks2, retried>>
  /\ UNCHANGED <<hwVars, loopVars, ioVars, histVars>>
  /\ UNCHANGED bufVars

\* ticks2 = SysTick->VAL;
TsReadVal ==
  /\ pc = "ts_val"
  /\ ticks2' = SysTick_VAL
  /\ at_ticks2' = BoundariesPassed
  /\ pc' = "ts_pend"
  /\ UNCHANGED <<in_call, ulTickCount, ticks, pend, pend2, count, count2, at_ticks, retried>>
  /\ UNCHANGED <<hwVars, loopVars, ioVars, histVars>>
  /\ UNCHANGED bufVars

\* pend2 = !!(SCB->ICSR & SCB_ICSR_PENDSTSET_Msk); count2 = _ulTickCount;
TsReadPend ==
  /\ pc = "ts_pend"
  /\ pend2' = pendst
  /\ count2' = ulTickCount
  /\ pc' = "ts_loop_val"
  /\ UNCHANGED <<in_call, ulTickCount, ticks, ticks2, pend, count, at_ticks, at_ticks2, retried>>
  /\ UNCHANGED <<hwVars, loopVars, ioVars, histVars>>
  /\ UNCHANGED bufVars

\* do { ticks = ticks2; pend = pend2; count = count2; ticks2 = SysTick->VAL;
TsLoopVal ==
  /\ pc = "ts_loop_val"
  /\ ticks' = ticks2
  /\ pend' = pend2
  /\ count' = count2
  /\ at_ticks' = at_ticks2
  /\ ticks2' = SysTick_VAL
  /\ at_ticks2' = BoundariesPassed
  /\ pc' = "ts_loop_pend"
  /\ UNCHANGED <<in_call, ulTickCount, pend2, count2, retried>>
  /\ UNCHANGED <<hwVars, loopVars, ioVars, histVars>>
  /\ UNCHANGED bufVars

\* pend2 = ...PENDSTSET...; count2 = _ulTickCount; } while (...);
TsLoopPend ==
  /\ pc = "ts_loop_pend"
  /\ pend2' = pendst
  /\ count2' = ulTickCount
  /\ IF Retry(pend, pend2', count, count2', ticks, ticks2)
     THEN pc' = "ts_loop_val" /\ retried' = TRUE
     ELSE pc' = "ts_ret" /\ retried' = retried
  /\ UNCHANGED <<in_call, ulTickCount, ticks, ticks2, pend, count, at_ticks, at_ticks2>>
  /\ UNCHANGED <<hwVars, loopVars, ioVars, histVars>>
  /\ UNCHANGED bufVars

\* The results are stored through the pointers and the function returns; its
\* locals die
TsReturnBody ==
  /\ pc = "ts_ret"
  /\ millis_copy' = StampMillis(count2, pend)
  /\ micros_part' = MicrosPart(ticks)
  /\ ulTickCount' = U32Zero /\ count' = U32Zero /\ count2' = U32Zero
  /\ ticks' = 0 /\ ticks2' = 0 /\ pend' = FALSE /\ pend2' = FALSE
  /\ at_ticks' = U32Zero /\ at_ticks2' = U32Zero /\ retried' = FALSE /\ in_call' = 0
  /\ pc' = "emit"
  /\ UNCHANGED <<DAQ_running, prev_DAQ_running, tick_sc, tick_sc_set, strCmd>>
  /\ UNCHANGED <<entry_DAQ, emitted, dispatched, last_toggle, since_poll>>
  /\ UNCHANGED <<hwVars, ioVars>>
  /\ UNCHANGED bufVars

TsReturn == TsReturnBody /\ UNCHANGED <<stamp, prev_stamp>>

\* The same, with the timestamp returned remembered
TsReturnLogged ==
  /\ TsReturnBody
  /\ stamp' = [millis |-> millis_copy', micros |-> micros_part', valid |-> TRUE]
  /\ prev_stamp' = stamp

\* ------------------------------------------------------------------ setup

\* (a setup that does not look at what begin() returns)
FirstMissingIgnored(found) == 0
\* The first sensor, in declared order, whose begin() fails (0: none fails)
FirstMissing(found) ==
  IF Sensors \subseteq found THEN 0
  ELSE CHOOSE i \in Sensors \ found : \A j \in Sensors \ found : i <= j

\* setup(): `found` are the chips that answer on the I2C bus
Setup ==
  /\ pc = "setup"
  /\ \E found \in SUBSET Sensors :
       LET f == FirstMissing(found) IN
       IF f # 0
       THEN /\ inited' = 1..(f - 1)
            /\ Ser_out' = Push(Ser_out, [kind |-> "diag", sensor |-> f])
            /\ led' = led
            /\ pc' = "halt"
       ELSE /\ inited' = found
            /\ Ser_out' = Ser_out
            /\ led' = LED_COLOR_IDLE
            /\ pc' = "loop"
  /\ UNCHANGED <<rx, ina228>>
  /\ UNCHANGED <<hwVars, tsVars, loopVars, histVars>>
  /\ UNCHANGED bufVars

\* ------------------------------------------------------------------ loop

\* (a gate that compares the time with the end of the period:
\* millis_copy > tick_sc + PERIOD_SC, in 32 bits)
PollGateDeadline(now, last) ==
  LET due == U32Add(last, PERIOD_SC)
  IN  now[1] > due[1] \/ (now[1] = due[1] /\ now[2] > due[2])
\* (a gate that opens when exactly PERIOD_SC ms have passed as well)
PollGateNonStrict(now, last) == U32Gt(U32Sub(now, last), PERIOD_SC - 1)
\* if ((millis_copy - tick_sc) > PERIOD_SC)
PollGate(now, last) == U32Gt(U32Sub(now, last), PERIOD_SC)

\* (a dispatch in which "on" does nothing)
DispatchOnIgnored(cmd, daq) ==
  IF cmd \in {"id?", "off"} THEN FALSE
  ELSE IF cmd = "r" THEN daq
  ELSE IF cmd = "on" THEN daq
  ELSE ~daq
\* (a dispatch in which a line that is none of the four commands starts the DAQ)
DispatchUnknownStarts(cmd, daq) ==
  IF cmd \in {"id?", "off"} THEN FALSE
  ELSE IF cmd = "r" THEN daq
  ELSE TRUE
\* (a dispatch in which "id?" leaves the DAQ state alone)
DispatchIdKeepsState(cmd, daq) ==
  IF cmd = "off" THEN FALSE
  ELSE IF cmd = "on" THEN TRUE
  ELSE IF cmd \in {"r", "id?"} THEN daq
  ELSE ~daq
\* The DAQ state a dispatched command leaves: the strcmp chain
DispatchState(cmd, daq) ==
  IF cmd = "id?" THEN FALSE
  ELSE IF cmd = "r" THEN daq
  ELSE IF cmd = "on" THEN TRUE
  ELSE IF cmd = "off" THEN FALSE
  ELSE ~daq

\* The sensors after a dispatched command
\* (a dispatch whose "on" starts from cleared accumulators as well)
DispatchSensorsOnResets(cmd, all) ==
  IF cmd \in {"r", "on"} THEN ResetAll(all) ELSE all
\* (a dispatch whose "r" resets the first channel only)
DispatchSensorsFirstOnly(cmd, all) ==
  IF cmd = "r" THEN [all EXCEPT ![1] = resetAccumulators(@)] ELSE all
\* "r": for (auto &ina228 : ina228_sensors) ina228.resetAccumulators();
DispatchSensors(cmd, all) == IF cmd = "r" THEN ResetAll(all) ELSE all

\* (a dispatch that acknowledges every command with a line)
DispatchOutputAcknowledged(cmd, out) ==
  IF cmd = "id?" THEN Push(out, [kind |-> "id", text |-> "Arduino, Wind Turbine"])
  ELSE Push(out, [kind |-> "ack", text |-> cmd])
\* The serial output after a dispatched command
DispatchOutput(cmd, out) ==
  IF cmd = "id?" THEN Push(out, [kind |-> "id", text |-> "Arduino, Wind Turbine"])
  ELSE out

\* (an indicator that is not set back when the DAQ stops)
LedAfterStartOnly(daq, prev, colour) ==
  IF daq # prev /\ daq THEN LED_COLOR_DAQ_RUNNING ELSE colour
\* The LED indicator section: the colour shown when the state has changed
LedAfter(daq, prev, colour) ==
  IF daq # prev
  THEN (IF daq THEN LED_COLOR_DAQ_RUNNING ELSE LED_COLOR_IDLE)
  ELSE colour

\* ina228.conversionReady(): reading the flag clears it
conversionReady(s) == s.cnvrf

\* (a gate that is open when any channel has a conversion ready)
SamplingReadyAny(all) == \E i \in Sensors : conversionReady(all[i])
\* ina228_sensors[0].conversionReady(): the first channel alone is asked
SamplingReady(all) == conversionReady(all[1])

\* if (DAQ_running && ina228_sensors[0].conversionReady()): `entry` is the DAQ
\* state at the entry of the pass, `daq` the state the command section left
\* (an acquisition that does not look at the DAQ state)
AcquireIgnoresState(entry, daq, ready) == ready
\* (an acquisition decided on the DAQ state the pass started with)
AcquireOnEntryState(entry, daq, ready) == entry /\ ready
\* if (DAQ_running && ina228_sensors[0].conversionReady())
Acquire(entry, daq, ready) == daq /\ ready

\* The DAQ state the command section of a pass leaves: `got` tells that the
\* gate was open and a command was available, `cmd` is that command
\* (a state that lapses to Idle in a pass that dispatches no command)
StateAfterCommandsLapses(got, cmd, daq) ==
  IF got THEN DispatchState(cmd, daq) ELSE FALSE
\* static bool DAQ_running, assigned in the branches of the strcmp chain only
StateAfterCommands(got, cmd, daq) ==
  IF got THEN DispatchState(cmd, daq) ELSE daq

\* The sensors after the condition of the acquisition section
\* (a condition that asks the first channel before it looks at the DAQ state:
\* ina228_sensors[0].conversionReady() && DAQ_running)
SensorsAfterGateAskedFirst(daq, all) == [all EXCEPT ![1].cnvrf = FALSE]
\* DAQ_running && ina228_sensors[0].conversionReady(): the flag of the first
\* channel is read, and cleared by the read, only if the DAQ is Running
SensorsAfterGate(daq, all) ==
  IF daq THEN [all EXCEPT ![1].cnvrf = FALSE] ELSE all

\* Where the pass goes on after the condition of the acquisition section
\* (an acquisition that waits, while the DAQ is Running, for the conversion)
SamplingStepWaits(entry, daq, ready) ==
  IF Acquire(entry, daq, ready) THEN "ts_millis"
  ELSE IF daq THEN "wait" ELSE "ret"
\* if (DAQ_running && ina228_sensors[0].conversionReady()) { ... } and the end
\* of loop() otherwise
SamplingStep(entry, daq, ready) ==
  IF Acquire(entry, daq, ready) THEN "ts_millis" ELSE "ret"

\* One pass of loop() up to the acquisition: the command section, the LED
\* indicator, and the decision to sample
LoopPass ==
  /\ pc = "loop"
  /\ LET now == millis
         last == IF tick_sc_set THEN tick_sc ELSE now
         poll == PollGate(now, last)
         got == poll /\ sc_available
         cmd == IF got THEN sc_getCmd(rx) ELSE NoCmd
         daq == StateAfterCommands(got, cmd, DAQ_running)
         chips == IF got THEN DispatchSensors(cmd, ina228) ELSE ina228
         ready == SamplingReady(chips)
     IN  /\ millis_copy' = now
         /\ tick_sc' = IF poll THEN now ELSE last
         /\ tick_sc_set' = TRUE
         /\ strCmd' = cmd
         /\ rx' = IF got THEN Tail(rx) ELSE rx
         /\ DAQ_running' = daq
         /\ Ser_out' = IF got THEN DispatchOutput(cmd, Ser_out) ELSE Ser_out
         /\ prev_DAQ_running' = daq
         /\ led' = LedAfter(daq, DAQ_running, led)
         /\ ina228' = SensorsAfterGate(daq, chips)
         /\ pc' = SamplingStep(DAQ_running, daq, ready)
         /\ dispatched' = got
         /\ since_poll' = IF poll \/ ~tick_sc_set THEN 0 ELSE since_poll
  /\ entry_DAQ' = DAQ_running
  /\ UNCHANGED <<micros_part, inited, emitted, last_toggle, stamp, prev_stamp>>
  /\ UNCHANGED <<hwVars, tsVars>>
  /\ UNCHANGED bufVars

\* One channel's part of the line: "\t%.2f\t%.2f\t%.5f" of I, V, E
ChannelFields(all, i) == <<readCurrent(all, i), readBusVoltage(all, i), readEnergy(all, i)>>

\* (a line that is assembled from the last channel to the first)
RECURSIVE LineFieldsReversed(_, _)
LineFieldsReversed(all, n) ==
  IF n = 0 THEN <<>> ELSE ChannelFields(all, n) \o LineFieldsReversed(all, n - 1)
\* The tab-separated fields the loop over ina228_sensors appends to buf, the
\* first n channels in declared order
RECURSIVE LineFields(_, _)
LineFields(all, n) ==
  IF n = 0 THEN <<>> ELSE LineFields(all, n - 1) \o ChannelFields(all, n)

\* snprintf(buf, BUFLEN, "%lu\t%u", millis_copy, micros_part)
TimestampFields(ms, us) == <<ms, us>>

\* Ser.println(buf), of a buf that holds `line`
PrintBody(line) ==
  /\ Ser_out' = Push(Ser_out, [kind |-> "data", fields |-> line])
  /\ emitted' = TRUE
  /\ pc' = "ret"
  /\ UNCHANGED <<rx, led, ina228, inited>>
  /\ UNCHANGED <<entry_DAQ, dispatched, last_toggle, stamp, prev_stamp, since_poll>>
  /\ UNCHANGED <<hwVars, tsVars, loopVars, bufVars>>

\* snprintf(buf, ...) of the timestamp, one snprintf per channel, Ser.println(buf)
Emit ==
  /\ pc = "emit"
  /\ PrintBody(TimestampFields(millis_copy, micros_part) \o LineFields(ina228, NumSensors))

\* The same in its steps, with the characters counted. The widths a field can
\* print in: "%lu" of a 32-bit and "%u" of a 16-bit unsigned value, and "%.2f"
\* and "%.5f" of a float (the shortest, a usual one, and the longest: sign,
\* integer digits, point, decimals)
WidthsU32 == {1, 10}
WidthsU16 == {1, 5}
WidthsFloat(prec) == {1 + 1 + prec, 4 + 1 + prec, 1 + FLT_DIGITS + 1 + prec}

\* (a buffer of a quarter of the size)
snprintfSmallBuffer(len, w) ==
  LET room == (BUFLEN \div 4) - len IN
  IF room <= 0 THEN len ELSE IF w < room THEN len + w ELSE len + room - 1
\* strlen(buf) after snprintf(buf + len, BUFLEN - len, ...) of w characters:
\* at most BUFLEN - len - 1 of them are stored, before the closing NUL
snprintf(len, w) ==
  LET room == BUFLEN - len IN
  IF room <= 0 THEN len ELSE IF w < room THEN len + w ELSE len + room - 1

\* The terminating NUL of a C string, and buf as the program finds it at boot
NUL == "NUL"
ZeroedBuf == <<NUL>>

\* A field as printed
Printed(fields) == [i \in 1..Len(fields) |-> ToString(fields[i])]

\* strlen(b), in cells: the cells before the first NUL
strlen(b) ==
  IF \E i \in 1..Len(b) : b[i] = NUL
  THEN (CHOOSE i \in 1..Len(b) : b[i] = NUL /\ \A j \in 1..(i - 1) : b[j] # NUL) - 1
  ELSE Len(b)

\* The string in b
Text(b) == SubSeq(b, 1, strlen(b))

\* (a store that writes the text without the terminating NUL)
StoreAtUnterminated(b, k, text) ==
  [i \in 1..(IF Len(b) > k + Len(text) THEN Len(b) ELSE k + Len(text)) |->
     IF i <= k THEN b[i]
     ELSE IF i <= k + Len(text) THEN text[i - k]
     ELSE b[i]]
\* snprintf(b + k, ...) of `text`: the text is stored from cell k on, the NUL
\* behind it, and the cells behind that keep what they held
StoreAt(b, k, text) ==
  [i \in 1..(IF Len(b) > k + Len(text) + 1 THEN Len(b) ELSE k + Len(text) + 1) |->
     IF i <= k THEN b[i]
     ELSE IF i <= k + Len(text) THEN text[i - k]
     ELSE IF i = k + Len(text) + 1 THEN NUL
     ELSE b[i]]

\* snprintf(buf, BUFLEN, "%lu\t%u", millis_copy, micros_part)
FormatTimestamp ==
  /\ pc = "emit"
  /\ buf' = StoreAt(buf, 0, Printed(TimestampFields(millis_copy, micros_part)))
  /\ \E wms \in WidthsU32, wus \in WidthsU16 :
       /\ buf_len' = snprintf(0, wms + 1 + wus)
       /\ buf_want' = wms + 1 + wus
  /\ chan' = 1
  /\ pc' = "emit_ch"
  /\ UNCHANGED <<hwVars, tsVars, loopVars, ioVars, histVars>>

\* snprintf(buf + strlen(buf), BUFLEN - strlen(buf), "\t%.2f\t%.2f\t%.5f", I, V, E)
FormatChannel ==
  /\ pc = "emit_ch"
  /\ chan <= NumSensors
  /\ buf' = StoreAt(buf, strlen(buf), Printed(ChannelFields(ina228, chan)))
  /\ \E wI \in WidthsFloat(2), wV \in WidthsFloat(2), wE \in WidthsFloat(5) :
       /\ buf_len' = snprintf(buf_len, 3 + wI + wV + wE)
       /\ buf_want' = buf_want + 3 + wI + wV + wE
  /\ chan' = chan + 1
  /\ UNCHANGED <<hwVars, tsVars, pc, loopVars, ioVars, histVars>>

\* Ser.println(buf), after the last channel
PrintLine == pc = "emit_ch" /\ chan > NumSensors /\ PrintBody(Text(buf))

\* loop() returns: its locals die, and the host has read what the pass wrote
LoopReturn ==
  /\ pc = "ret"
  /\ prev_DAQ_running' = FALSE
  /\ millis_copy' = U32Zero
  /\ micros_part' = 0
  /\ strCmd' = NoCmd
  /\ Ser_out' = <<>>
  /\ entry_DAQ' = FALSE
  /\ emitted' = FALSE
  /\ dispatched' = FALSE
  /\ last_toggle' = IF ~dispatched THEN last_toggle
                    ELSE IF strCmd \in Recognised THEN "none"
                    ELSE IF entry_DAQ THEN "running" ELSE "idle"
  /\ pc' = "loop"
  /\ UNCHANGED <<DAQ_running, tick_sc, tick_sc_set>>
  /\ UNCHANGED <<rx, led, ina228, inited, stamp, prev_stamp, since_poll>>
  /\ UNCHANGED <<hwVars, tsVars>>
  /\ UNCHANGED bufVars

\* ------------------------------------------------------------------ specification

\* The millisecond counter when setup() starts: just after boot, or late in
\* its 49.7 days
StartCounts == {U32Zero, <<W16 - 1, W16 - 22>>}

NoStamp == [millis |-> U32Zero, micros |-> 0, valid |-> FALSE]

Init ==
  /\ SysTick_VAL = SysTick_LOAD
  /\ pendst = FALSE
  /\ millis_count \in StartCounts
  /\ wraps = 0 /\ delays = 0
  /\ ulTickCount = U32Zero /\ count = U32Zero /\ count2 = U32Zero
  /\ ticks = 0 /\ ticks2 = 0 /\ pend = FALSE /\ pend2 = FALSE
  /\ at_ticks = U32Zero /\ at_ticks2 = U32Zero /\ retried = FALSE /\ in_call = 0
  /\ pc = "setup"
  /\ DAQ_running = FALSE /\ prev_DAQ_running = FALSE
  /\ tick_sc = U32Zero /\ tick_sc_set = FALSE
  /\ millis_copy = U32Zero /\ micros_part = 0
  /\ strCmd = NoCmd
  /\ rx = <<>>
  /\ Ser_out = <<>>
  /\ led = LED_COLOR_SETUP
  /\ ina228 = [i \in Sensors |-> [cnvrf |-> FALSE, energy |-> "reset"]]
  /\ inited = {}
  /\ entry_DAQ = FALSE /\ emitted = FALSE /\ dispatched = FALSE
  /\ last_toggle = "none"
  /\ since_poll = 0
  /\ buf = ZeroedBuf /\ buf_len = 0 /\ buf_want = 0 /\ chan = 0
  /\ stamp = NoStamp /\ prev_stamp = NoStamp

\* The firmware, with the clock advancing between the passes of loop()
Next ==
  \/ Tick \/ Reload \/ SysTick_Handler \/ Elapse
  \/ Receive \/ ConversionDone
  \/ Setup
  \/ LoopPass
  \/ TsReadMillis \/ TsReadVal \/ TsReadPend \/ TsLoopVal \/ TsLoopPend \/ TsReturn
  \/ Emit
  \/ LoopReturn

Spec == Init /\ [][Next]_vars

\* The timestamp service under preemption: the firmware after setup(), a first
\* pass and a later pass that has dispatched "on", with no further commands,
\* and with the clock advancing between any two reads of a call as well
InitTS ==
  /\ SysTick_VAL = SysTick_LOAD
  /\ pendst = FALSE
  /\ \E start \in StartCounts :
       \/ /\ wraps = 1 /\ delays = 1
          /\ millis_count = U32Add(start, PERIOD_SC + 1)
       \/ /\ wraps = 0 /\ delays = 2
          /\ millis_count = U32Add(start, PERIOD_SC + PERIOD_SC)
  /\ tick_sc = millis_count /\ tick_sc_set = TRUE
  /\ ulTickCount = U32Zero /\ count = U32Zero /\ count2 = U32Zero
  /\ ticks = 0 /\ ticks2 = 0 /\ pend = FALSE /\ pend2 = FALSE
  /\ at_ticks = U32Zero /\ at_ticks2 = U32Zero /\ retried = FALSE /\ in_call = 0
  /\ pc = "loop"
  /\ DAQ_running = TRUE /\ prev_DAQ_running = FALSE
  /\ millis_copy = U32Zero /\ micros_part = 0
  /\ strCmd = NoCmd
  /\ rx = <<>>
  /\ Ser_out = <<>>
  /\ led = LED_COLOR_DAQ_RUNNING
  /\ ina228 = [i \in Sensors |-> [cnvrf |-> FALSE, energy |-> "reset"]]
  /\ inited = Sensors
  /\ entry_DAQ = FALSE /\ emitted = FALSE /\ dispatched = FALSE
  /\ last_toggle = "none"
  /\ since_poll = 0
  /\ buf = ZeroedBuf /\ buf_len = 0 /\ buf_want = 0 /\ chan = 0
  /\ stamp = NoStamp /\ prev_stamp = NoStamp

\* The steps of the processor in loop() and get_systick_timestamp
Program ==
  \/ LoopPass
  \/ TsReadMillis \/ TsReadVal \/ TsReadPend \/ TsLoopVal \/ TsLoopPend
  \/ TsReturnLogged
  \/ Emit
  \/ LoopReturn

NextTS ==
  \/ Tick \/ Reload \/ SysTick_Handler
  \/ TickInCall \/ ReloadInCall \/ SysTick_HandlerInCall
  \/ ConversionDone
  \/ Program

\* The processor keeps executing; the clock is bound by nothing
SpecTS == InitTS /\ [][NextTS]_vars /\ WF_vars(Program)

\* The command section alone: a host that sends bursts of commands to a
\* firmware whose sensors have no conversion ready
NextCmd ==
  \/ Tick \/ Reload \/ SysTick_Handler \/ Elapse
  \/ ReceiveBurst
  \/ Setup
  \/ LoopPass
  \/ LoopReturn

SpecCmd == Init /\ [][NextCmd]_vars

\* The sub-millisecond fraction over every value of the down-counter: a call
\* that has read `ticks` and is about to return
InitFrac ==
  /\ SysTick_VAL = 0
  /\ pendst = FALSE
  /\ millis_count = U32Add(U32Zero, PERIOD_SC + PERIOD_SC)
  /\ wraps = 0 /\ delays = 2
  /\ tick_sc = millis_count /\ tick_sc_set = TRUE
  /\ ulTickCount = millis_count /\ count = millis_count /\ count2 = millis_count
  /\ ticks \in 0..SysTick_LOAD /\ ticks2 = 0 /\ pend = FALSE /\ pend2 = FALSE
  /\ at_ticks = millis_count /\ at_ticks2 = millis_count /\ retried = FALSE /\ in_call = 0
  /\ pc = "ts_ret"
  /\ DAQ_running = TRUE /\ prev_DAQ_running = TRUE
  /\ millis_copy = millis_count /\ micros_part = 0
  /\ strCmd = NoCmd
  /\ rx = <<>>
  /\ Ser_out = <<>>
  /\ led = LED_COLOR_DAQ_RUNNING
  /\ ina228 = [i \in Sensors |-> [cnvrf |-> i # 1, energy |-> "some"]]
  /\ inited = Sensors
  /\ entry_DAQ = TRUE /\ emitted = FALSE /\ dispatched = FALSE
  /\ last_toggle = "none"
  /\ since_poll = 0
  /\ buf = ZeroedBuf /\ buf_len = 0 /\ buf_want = 0 /\ chan = 0
  /\ stamp = NoStamp /\ prev_stamp = NoStamp

NextFrac == TsReturn \/ Emit

SpecFrac == InitFrac /\ [][NextFrac]_vars

\* The assembly of one data line, character by character count: a pass that
\* has its timestamp and is about to fill buf
BufStart(earlier) ==
  /\ SysTick_VAL = 0
  /\ pendst = FALSE
  /\ millis_count = U32Add(U32Zero, PERIOD_SC + PERIOD_SC)
  /\ wraps = 0 /\ delays = 2
  /\ tick_sc = millis_count /\ tick_sc_set = TRUE
  /\ ulTickCount = U32Zero /\ count = U32Zero /\ count2 = U32Zero
  /\ ticks = 0 /\ ticks2 = 0 /\ pend = FALSE /\ pend2 = FALSE
  /\ at_ticks = U32Zero /\ at_ticks2 = U32Zero /\ retried = FALSE /\ in_call = 0
  /\ pc = "emit"
  /\ DAQ_running = TRUE /\ prev_DAQ_running = TRUE
  /\ millis_copy = millis_count /\ micros_part = MicrosPart(0)
  /\ strCmd = NoCmd
  /\ rx = <<>>
  /\ Ser_out = <<>>
  /\ led = LED_COLOR_DAQ_RUNNING
  /\ ina228 = [i \in Sensors |-> [cnvrf |-> i # 1, energy |-> "some"]]
  /\ inited = Sensors
  /\ entry_DAQ = TRUE /\ emitted = FALSE /\ dispatched = FALSE
  /\ last_toggle = "none"
  /\ since_poll = 0
  /\ buf = earlier.cells /\ buf_len = earlier.len /\ buf_want = earlier.len /\ chan = 0
  /\ stamp = NoStamp /\ prev_stamp = NoStamp

\* buf at boot
FreshBuf == [cells |-> ZeroedBuf, len |-> 0]

InitBuf == BufStart(FreshBuf)

NextBuf == FormatTimestamp \/ FormatChannel \/ PrintLine

SpecBuf == InitBuf /\ [][NextBuf]_vars

\* The line an earlier pass has left in buf: sampled before the accumulators
\* had counted anything, at another time
EarlierLine ==
  Printed(TimestampFields(U32Add(U32Zero, PERIOD_SC + 1), 500)
            \o LineFields([i \in Sensors |-> [cnvrf |-> FALSE, energy |-> "reset"]],
                          NumSensors))

\* What a pass can find in buf: nothing, an earlier line in its shortest
\* print, and an earlier line whose numbers printed wider and so take more
\* room than the fields of any line take here
EarlierBufs ==
  { FreshBuf,
    [cells |-> EarlierLine \o <<NUL>>, len |-> 3 + NumSensors * 18],
    [cells |-> EarlierLine \o <<"0", "0", "0", NUL>>, len |-> 16 + NumSensors * 135] }

\* The assembly of a data line in a buf that earlier passes have used
InitReuse == \E earlier \in EarlierBufs : BufStart(earlier)

SpecReuse == InitReuse /\ [][NextBuf]_vars

\* The control loop over a longer time, counted in stretches of PERIOD_SC ms:
\* the steps of the processor in loop() and get_systick_timestamp
ControlLoop ==
  \/ LoopPass
  \/ TsReadMillis \/ TsReadVal \/ TsReadPend \/ TsLoopVal \/ TsLoopPend \/ TsReturn
  \/ Emit
  \/ LoopReturn

NextLive ==
  \/ ElapseLong
  \/ Receive \/ ConversionDone
  \/ Setup
  \/ ControlLoop

\* The processor keeps executing, and time advances as long as the run has
\* time; commands and conversions come or do not come
SpecLive == Init /\ [][NextLive]_vars /\ WF_vars(ControlLoop) /\ SF_vars(ElapseLong)

\* ------------------------------------------------------------------ properties

\* b is not earlier than a, as (millis, micros_part) pairs; a millis that is
\* ahead by less than 2^31 counts as later, which lets the counter wrap
StampLeq(a, b) ==
  LET d == U32Sub(b.millis, a.millis)
  IN  IF d = U32Zero THEN a.micros <= b.micros ELSE d[1] < W16 \div 2

\* The pass is sampling, or has sampled
Sampling ==
  emitted \/ pc \in {"ts_millis", "ts_val", "ts_pend", "ts_loop_val", "ts_loop_pend",
                     "ts_ret", "emit", "emit_ch"}

\* C1: of two successive calls of get_systick_timestamp the second returns a
\* timestamp that is not earlier than the first, apart from the wraparound
C1_TimestampMonotone ==
  (prev_stamp.valid /\ stamp.valid) => StampLeq(prev_stamp, stamp)

\* C2: when the retry loop has ended, the millisecond value about to be
\* returned (count2, plus one if pend) is the number of millisecond boundaries
\* that had passed when the down-counter value in `ticks` was read
C2_SnapshotConsistent ==
  (pc = "ts_ret") => (StampMillis(count2, pend) = at_ticks)

\* C3: every call of get_systick_timestamp leaves its retry loop
C3_RetryLoopTerminates == InCall ~> (pc = "ts_ret")

\* C3 witness: a call leaves the loop after it has repeated an iteration
C3_Witness == pc = "ts_ret" /\ retried

\* C4: for every down-counter value the sub-millisecond fraction is in 0..999,
\* and the product it is computed from fits in 32 bits
C4_FractionInRange ==
  /\ (pc = "ts_ret") =>
       /\ MicrosPart(ticks) \in 0..999
       /\ FracProduct(ticks) >= 0
       /\ FracProduct(ticks) \div W16 < W16
  /\ (pc = "emit") => (micros_part \in 0..999)

\* C4 witness: the call returns the largest fraction, from a down-counter at 0
C4_Witness == pc = "emit" /\ micros_part = 999

\* C5: a dispatched "on" leaves the DAQ state Running and a dispatched "off"
\* leaves it Idle, whatever the state was
C5_OnOffSetState ==
  dispatched =>
    /\ (strCmd = "on") => DAQ_running
    /\ (strCmd = "off") => ~DAQ_running

\* C5 witness: "on" is dispatched while Running and the state stays Running
C5_Witness == dispatched /\ strCmd = "on" /\ entry_DAQ /\ DAQ_running

\* C6: a dispatched line that is none of "id?", "r", "on", "off" toggles the
\* DAQ state, writes nothing but data lines, and undoes the toggle of such a
\* line dispatched just before it
C6_UnknownToggles ==
  (dispatched /\ strCmd \notin Recognised) =>
    /\ DAQ_running = ~entry_DAQ
    /\ pc # "halt"
    /\ \A k \in 1..Len(Ser_out) : Ser_out[k].kind = "data"
    /\ (last_toggle # "none") => (DAQ_running = (last_toggle = "running"))

\* C6 witness: "ON" is dispatched right after another such line had started
\* the DAQ, and stops it again
C6_Witness ==
  dispatched /\ strCmd = "ON" /\ last_toggle = "idle" /\ entry_DAQ /\ ~DAQ_running

\* C7: a dispatched "id?" writes the identification line and leaves the DAQ
\* state Idle
C7_IdForcesIdle ==
  (dispatched /\ strCmd = "id?") =>
    /\ ~DAQ_running
    /\ Len(Ser_out) >= 1
    /\ Ser_out[1].kind = "id"
    /\ Ser_out[1].text = "Arduino, Wind Turbine"

\* C7 witness: "id?" is dispatched while Running
C7_Witness == dispatched /\ strCmd = "id?" /\ entry_DAQ /\ ~DAQ_running

\* C8: a dispatched "r" resets the accumulator of every channel and leaves the
\* DAQ state as it was
C8_ResetAllChannels ==
  (dispatched /\ strCmd = "r") =>
    /\ \A i \in Sensors : ina228[i].energy = "reset"
    /\ DAQ_running = entry_DAQ

\* C8 witness: "r" is dispatched while Running, after conversions
C8_Witness ==
  /\ dispatched /\ strCmd = "r" /\ entry_DAQ /\ DAQ_running
  /\ \A i \in Sensors : i # 1 => ina228[i].cnvrf

\* C9: the DAQ state is Idle until the first pass, and a pass samples and
\* writes a data line only while the DAQ state is Running
C9_EmitOnlyWhileRunning ==
  /\ ~tick_sc_set => (~DAQ_running /\ ~Sampling)
  /\ Sampling => DAQ_running
  /\ \A k \in 1..Len(Ser_out) : Ser_out[k].kind = "data" => DAQ_running

\* C9 witness: "off" is dispatched while Running and the first channel has a
\* conversion ready: the pass ends without a data line
C9_Witness ==
  /\ pc = "ret" /\ dispatched /\ strCmd = "off" /\ entry_DAQ
  /\ ina228[1].cnvrf /\ ~emitted

\* C10: the sampling decision of a pass uses the DAQ state its command section
\* left: a pass that dispatches a command samples only if that command left
\* the state Running, so never when it dispatches "off", and it does sample
\* if the command left the state Running and a conversion was ready
C10_CommandBeforeSampling ==
  /\ (dispatched /\ Sampling) => (strCmd # "off" /\ DAQ_running)
  /\ (pc = "ret" /\ dispatched /\ DAQ_running /\ ~emitted) => ~ina228[1].cnvrf

\* C10 witness: a pass dispatches "on" while Idle and writes a data line
C10_Witness == dispatched /\ strCmd = "on" /\ ~entry_DAQ /\ emitted /\ pc = "ret"

\* The data lines among the lines of `out`
DataLines(out) == {k \in 1..Len(out) : out[k].kind = "data"}

\* C11: in a pass whose sampling step finds the DAQ Running, the pass samples
\* exactly if the first channel has a conversion ready, whatever the other
\* channels report, and their flags are left as they are; a pass that has
\* sampled has written one data line with the values of every channel
C11_FirstChannelGates ==
  /\ [](pc = "ret" =>
         /\ emitted => Cardinality(DataLines(Ser_out)) = 1
         /\ \A k \in DataLines(Ser_out) : Len(Ser_out[k].fields) = 2 + 3 * NumSensors
         /\ ~emitted => DataLines(Ser_out) = {})
  /\ [][(pc = "loop" /\ pc' # "loop") =>
          /\ DAQ_running' => ((pc' = "ts_millis") <=> ina228[1].cnvrf)
          /\ \A i \in Sensors \ {1} : ina228'[i].cnvrf = ina228[i].cnvrf]_vars

\* C11 witness: a pass has sampled with a conversion ready in the first
\* channel only
C11_Witness ==
  /\ pc = "ret" /\ emitted /\ entry_DAQ /\ ~dispatched
  /\ \A i \in Sensors \ {1} : ~ina228[i].cnvrf

\* C12: every data line written has 2 + 3n tab-separated fields: the millis
\* and the micros part of the timestamp, then the current, the bus voltage
\* and the energy of each of the n channels, in declared channel order and
\* each channel once, and it ends with the line terminator
C12_LineShape ==
  \A k \in DataLines(Ser_out) :
    LET f == Ser_out[k].fields IN
    /\ Len(f) = 2 + 3 * NumSensors
    /\ f[1] = millis_copy
    /\ f[2] = micros_part
    /\ \A i \in Sensors :
         /\ f[3 * i] = <<i, "I">>
         /\ f[3 * i + 1] = <<i, "V">>
         /\ f[3 * i + 2] = <<i, "E", ina228[i].energy>>
    /\ Ser_out[k].eol = "\r\n"

\* C12 witness: a data line of 11 fields has been written whose last field is
\* the energy of the third channel
C12_Witness ==
  \E k \in DataLines(Ser_out) :
    /\ Len(Ser_out[k].fields) = 11
    /\ Ser_out[k].fields[11] = <<NumSensors, "E", "some">>

\* C13: when a sensor fails to initialise, the firmware writes the diagnostic
\* of that sensor and stays halted for ever: it has initialised the sensors
\* before the failing one only, it never makes a pass of the control loop, so
\* dispatches no command and writes no data line; the control loop runs only
\* with every sensor initialised
C13_StartupHalt ==
  /\ [](pc = "halt" =>
         /\ Len(Ser_out) = 1 /\ Ser_out[1].kind = "diag"
         /\ Ser_out[1].sensor \in Sensors \ inited
         /\ inited = 1..(Ser_out[1].sensor - 1)
         /\ ~tick_sc_set /\ ~dispatched /\ ~emitted /\ ~DAQ_running)
  /\ [](pc \notin {"setup", "halt"} => inited = Sensors)
  /\ [][pc = "halt" => (pc' = "halt" /\ Ser_out' = Ser_out /\ inited' = inited)]_vars

\* C13 witness: the second sensor has failed, the firmware is halted and a
\* command of the host is waiting
C13_Witness == pc = "halt" /\ inited = {1} /\ Len(rx) = 1

\* C14: a pass polls the command listener (it restarts the poll period, and
\* takes a command if one waits) only when more than PERIOD_SC ms have been
\* counted since the previous poll, or since the first pass; the first pass
\* polls nothing
C14_PollCadence ==
  [][(pc = "loop" /\ pc' # "loop") =>
      /\ (tick_sc_set /\ tick_sc' # tick_sc) => since_poll > PERIOD_SC
      /\ (dispatched' \/ rx' # rx) => (tick_sc_set /\ since_poll > PERIOD_SC)
      /\ (since_poll' # 0) => (tick_sc' = tick_sc /\ ~dispatched')]_vars

\* C14 witness: a second poll takes a command, PERIOD_SC + 1 ms after the
\* first poll, which came PERIOD_SC + 1 ms after the first pass
C14_Witness ==
  /\ pc = "ret" /\ dispatched /\ since_poll = 0
  /\ wraps = 2 /\ delays = 2 /\ ~pendst
  /\ millis_count \in {U32Add(c, PERIOD_SC + PERIOD_SC + 2) : c \in StartCounts}
  /\ tick_sc = millis_count

\* C15: a pass takes at most one command from the listener, the one that has
\* waited longest, and applies that one to the DAQ state; the lines behind it
\* keep their order and wait for later polls, and nothing else removes a line
\* or changes the DAQ state
C15_OnePerPollInOrder ==
  [][/\ (pc = "loop" /\ pc' # "loop") =>
          IF dispatched'
          THEN /\ rx # <<>>
               /\ strCmd' = Head(rx)
               /\ rx' = Tail(rx)
               /\ DAQ_running' = CASE Head(rx) = "on" -> TRUE
                                    [] Head(rx) \in {"off", "id?"} -> FALSE
                                    [] Head(rx) = "r" -> DAQ_running
                                    [] OTHER -> ~DAQ_running
          ELSE rx' = rx /\ DAQ_running' = DAQ_running
     /\ ~(pc = "loop" /\ pc' # "loop") =>
          /\ DAQ_running' = DAQ_running
          /\ rx' = rx \/ \E tok \in Tokens : rx' = Append(rx, tok)]_vars

\* C15 witness: of two commands that waited, "on" then "off", a poll has
\* dispatched "on" and left "off" for the next poll
C15_Witness ==
  pc = "ret" /\ dispatched /\ strCmd = "on" /\ rx = <<"off">> /\ DAQ_running

\* C16: in the control loop a pass writes the identification line exactly if
\* it has dispatched "id?", a data line exactly if it has sampled, and nothing
\* else: a pass that dispatches "r", "on", "off" or a toggle, or no command,
\* writes at most its data line
C16_OnlyIdAndDataLines ==
  (pc \notin {"setup", "halt"}) =>
    /\ \A k \in 1..Len(Ser_out) : Ser_out[k].kind \in {"id", "data"}
    /\ \A k \in 1..Len(Ser_out) :
         Ser_out[k].kind = "id" => (k = 1 /\ dispatched /\ strCmd = "id?")
    /\ Len(Ser_out) = (IF dispatched /\ strCmd = "id?" THEN 1 ELSE 0)
                        + (IF emitted THEN 1 ELSE 0)

\* C16 witness: a pass has dispatched the empty line while Idle, which starts
\* the DAQ, and has written its data line and nothing else
C16_Witness ==
  /\ pc = "ret" /\ dispatched /\ strCmd = "" /\ ~entry_DAQ /\ emitted
  /\ Len(Ser_out) = 1 /\ Ser_out[1].kind = "data"

\* C17: whatever the widths the fields print in, every snprintf of a line
\* stores all the characters it is given: the line in buf is as long as the
\* text it was assembled from, and shorter than BUFLEN
C17_NoTruncation ==
  /\ buf_len = buf_want
  /\ buf_len < BUFLEN

\* C17 witness: the longest line has been printed: 10 + 1 + 5 characters
\* of the timestamp and 3 + 43 + 43 + 46 of each of the three channels
C17_Witness ==
  pc = "ret" /\ emitted /\ buf_len = 16 + NumSensors * 135

\* C18: the LED is blue during setup and in a halted setup; from the end of
\* setup on, and after the LED section of every pass, it is green when the
\* DAQ is Idle and orange when it is Running
C18_LedShowsState ==
  /\ (pc \in {"setup", "halt"}) => led = "blue"
  /\ (pc \notin {"setup", "halt"}) => led = (IF DAQ_running THEN "orange" ELSE "green")

\* C18 witness: the DAQ has been stopped by a toggle and the LED is green
\* again at the end of the pass
C18_Witness ==
  pc = "ret" /\ dispatched /\ strCmd = "ON" /\ entry_DAQ /\ led = "green"

\* C19: whenever the call fills snapshot2 (before the loop and in every
\* iteration of it), the count it stores in count2 is the value the
\* millisecond counter of the interrupt handler has at that moment
C19_SnapshotRereadsCounter ==
  [][(pc \in {"ts_pend", "ts_loop_pend"} /\ pc' # pc) => count2' = millis_count]_vars

\* C20: the call returns the millisecond count of its last snapshot, plus one
\* exactly if the pending flag was set, modulo 2^32: from the largest count
\* with the flag set it returns 0
C20_ReturnedMillis ==
  [][(pc = "ts_ret" /\ pc' # pc) =>
      millis_copy' = (IF ~pend THEN count2
                      ELSE IF count2[2] < W16 - 1 THEN <<count2[1], count2[2] + 1>>
                      ELSE IF count2[1] < W16 - 1 THEN <<count2[1] + 1, 0>>
                      ELSE <<0, 0>>)]_vars

\* C20 witness: a call has returned 0 ms while the counter stands at 2^32 - 1
\* with the SysTick exception pending
C20_Witness ==
  /\ pc = "emit" /\ stamp.valid /\ stamp.millis = <<0, 0>>
  /\ millis_count = <<W16 - 1, W16 - 1>> /\ pendst

\* C21: the DAQ state changes only in a pass that dispatches "id?", "on",
\* "off" or a toggle line: a pass that finds the poll gate closed or no
\* command waiting leaves the state as it is, whether it goes on to sample or
\* not, and so does every step that is not the command section of a pass;
\* no amount of time that passes stops a Running DAQ
C21_StateChangesByDispatchOnly ==
  [][/\ (DAQ_running' # DAQ_running) =>
          /\ pc = "loop" /\ pc' # "loop"
          /\ dispatched' /\ strCmd' \in Tokens \ {"r"}
          /\ tick_sc_set /\ since_poll > PERIOD_SC /\ rx # <<>>
     /\ (pc = "loop" /\ pc' # "loop"
           /\ (~tick_sc_set \/ since_poll <= PERIOD_SC \/ rx = <<>>)) =>
          (~dispatched' /\ DAQ_running' = DAQ_running)]_vars

\* C21 witness: a pass that found the DAQ Running has polled the listener,
\* found no command, written a data line, and the DAQ is still Running
C21_Witness ==
  /\ pc = "ret" /\ entry_DAQ /\ DAQ_running /\ ~dispatched /\ emitted
  /\ since_poll = 0 /\ delays = MaxDelays

\* C22: a pass writes at most one data line, a data line is written by the
\* pass that sampled it (it carries the timestamp and the readings that pass
\* has taken), and the timestamp of a data line is not earlier than the
\* timestamp of the data line written before it, apart from the wraparound
C22_OneLinePerPassInOrder ==
  /\ Cardinality(DataLines(Ser_out)) <= 1
  /\ emitted <=> (DataLines(Ser_out) # {})
  /\ \A k \in DataLines(Ser_out) :
       LET f == Ser_out[k].fields IN
       /\ pc = "ret" /\ stamp.valid
       /\ f[1] = stamp.millis /\ f[2] = stamp.micros
       /\ \A i \in Sensors : f[3 * i + 2] = <<i, "E", ina228[i].energy>>
       /\ prev_stamp.valid =>
            StampLeq(prev_stamp, [millis |-> f[1], micros |-> f[2]])

\* C23: every pass of the control loop, once begun, returns, whatever the
\* DAQ state and also when no conversion ever becomes ready; so a command
\* that waits in the listener of a running control loop is dispatched, if
\* the time that still passes brings the poll period to more than PERIOD_SC ms
C23_CommandsNotStarved ==
  /\ (pc \notin {"setup", "halt", "loop"}) ~> (pc = "loop")
  /\ (/\ rx # <<>>
      /\ tick_sc_set
      /\ since_poll + PERIOD_SC * (MaxLongDelays - delays) > PERIOD_SC) ~> dispatched

\* C23 witness: "off" is dispatched while the DAQ was Running, in a run in
\* which the first channel has never had a conversion ready
C23_Witness ==
  /\ pc = "ret" /\ dispatched /\ strCmd = "off" /\ entry_DAQ /\ ~emitted
  /\ ~ina228[1].cnvrf /\ ina228[1].energy = "reset"
  /\ delays = 4

\* C24: whatever an earlier pass has left in buf (nothing, another line, a
\* longer line), the string in buf is, after each snprintf, the print of the
\* timestamp and of the channels read so far in this pass, and the line
\* written is the print of this pass's timestamp and readings, as long as
\* these take: what is written is a function of the current inputs alone
C24_LineIndependentOfEarlier ==
  /\ (pc = "emit_ch") =>
       /\ Text(buf) = Printed(TimestampFields(millis_copy, micros_part)
                                \o LineFields(ina228, chan - 1))
       /\ buf_len = buf_want
  /\ (pc = "ret") =>
       /\ Len(Ser_out) = 1
       /\ Ser_out[1].fields = Printed(TimestampFields(millis_copy, micros_part)
                                        \o LineFields(ina228, NumSensors))
       /\ buf_len = buf_want

\* C24 witness: a line has been written from a buf that held a longer line,
\* the end of which is still behind the NUL of the new line, and the new
\* line is the shortest there is
C24_Witness ==
  /\ pc = "ret" /\ emitted
  /\ Len(buf) = 2 + 3 * NumSensors + 4
  /\ buf[2 + 3 * NumSensors + 1] = NUL /\ buf[2 + 3 * NumSensors + 2] = "0"
  /\ buf_len = 3 + NumSensors * 18

\* C25: from the first pass on, the 32-bit difference millis - tick_sc is the
\* number of milliseconds counted since the last poll (since the first pass,
\* before the first poll), also when the counter has wrapped to 0 in between;
\* so the poll gate is open exactly when more than PERIOD_SC ms have been
\* counted: after the wraparound it neither stays closed nor opens in every
\* pass
C25_GateAcrossWraparound ==
  tick_sc_set =>
    /\ U32Sub(millis, tick_sc) = <<0, since_poll>>
    /\ PollGate(millis, tick_sc) <=> (since_poll > PERIOD_SC)

\* C25 witness: in a run that started 22 ms before the wraparound, a pass
\* has polled and dispatched a command after the counter wrapped
C25_Witness ==
  /\ pc = "ret" /\ dispatched /\ since_poll = 0
  /\ ~pendst
  /\ millis_count = U32Add(<<W16 - 1, W16 - 22>>, PERIOD_SC * delays + wraps)
  /\ millis_count[1] = 0
  /\ tick_sc = millis_count

\* C26: the accumulator of a channel is reset only by the command section of
\* a pass that dispatches "r": a pass that dispatches "id?", "on", "off" or
\* a toggle line, or no command, leaves every accumulator as it is, and so
\* do the timestamp call and the reading and printing of the channels
C26_OnlyResetTouchesAccumulators ==
  [][/\ (\E i \in Sensors : ina228'[i].energy = "reset" /\ ina228[i].energy # "reset") =>
          (pc = "loop" /\ pc' # "loop" /\ dispatched' /\ strCmd' = "r")
     /\ (pc = "loop" /\ pc' # "loop" /\ strCmd' # "r") =>
          (\A i \in Sensors : ina228'[i].energy = ina228[i].energy)
     /\ (pc \notin {"setup", "halt", "loop"}) =>
          (\A i \in Sensors : ina228'[i].energy = ina228[i].energy)]_vars

\* C26 witness: a pass has dispatched "on" and sampled, and the accumulators
\* of all channels still hold what they had counted
C26_Witness ==
  /\ pc = "ret" /\ dispatched /\ strCmd = "on" /\ emitted
  /\ \A i \in Sensors : ina228[i].energy = "some"

\* C27: a pass whose command section leaves the DAQ Idle accesses no sensor
\* for a measurement: the conversion-ready flag of the first channel is not
\* read, so it stays as it is, no other flag changes, and the pass ends
\* without a timestamp, a reading or a data line
C27_IdlePassLeavesSensors ==
  /\ [][(pc = "loop" /\ pc' # "loop" /\ ~DAQ_running') =>
          /\ pc' = "ret"
          /\ \A i \in Sensors : ina228'[i].cnvrf = ina228[i].cnvrf
          /\ DataLines(Ser_out') = {}]_vars
  /\ []((pc = "ret" /\ ~DAQ_running) => ~emitted)

\* C27 witness: a pass has dispatched "off" while a conversion was ready in
\* the first channel, and the flag is still set at the end of the pass
C27_Witness ==
  /\ pc = "ret" /\ dispatched /\ strCmd = "off" /\ entry_DAQ /\ ~DAQ_running
  /\ ina228[1].cnvrf /\ ~emitted /\ Ser_out = <<>>

====
